---------------------------- MODULE Spec2Model ----------------------------
(***************************************************************************)
(* A model of bench-7z.py: the 7z benchmark wrapper (main), its report     *)
(* parser (parse_7z_benchmark_output), the legacy throughput search        *)
(* (parse_throughput) and the statistics reduction (safe_stats).           *)
(*                                                                         *)
(* Text is modelled at the character level: a Python str is a sequence of  *)
(* one-character strings, so that str.split, str.strip, `in`, startswith   *)
(* and the regular expressions of the source are computed, not assumed.    *)
(* Floats are modelled as exact rationals <<numerator, denominator>> and   *)
(* values rounded with round(x, 6) as integers counting 10^-6 units.       *)
(***************************************************************************)
EXTENDS Integers, Sequences, FiniteSets, TLC

(***************************************************************************)
(* Characters                                                              *)
(***************************************************************************)
DigitChars == <<"0", "1", "2", "3", "4", "5", "6", "7", "8", "9">>

UpperChars == <<"A", "B", "C", "D", "E", "F", "G", "H", "I", "J", "K", "L", "M",
                "N", "O", "P", "Q", "R", "S", "T", "U", "V", "W", "X", "Y", "Z">>

LowerChars == <<"a", "b", "c", "d", "e", "f", "g", "h", "i", "j", "k", "l", "m",
                "n", "o", "p", "q", "r", "s", "t", "u", "v", "w", "x", "y", "z">>

Range(f) == {f[x] : x \in DOMAIN f}

\* \d of the re module, str.isdigit
IsDigit(c) == c \in Range(DigitChars)

\* \s of the re module, str.isspace
IsSpace(c) == c \in {" ", "\t", "\n"}

\* \w of the re module
IsWord(c) == c \in Range(DigitChars) \cup Range(UpperChars) \cup Range(LowerChars) \cup {"_"}

DigitVal(c) == (CHOOSE d \in 1..10 : DigitChars[d] = c) - 1

\* str.lower
Lower(s) ==
    [k \in 1..Len(s) |->
        IF s[k] \in Range(UpperChars)
        THEN LowerChars[CHOOSE n \in 1..26 : UpperChars[n] = s[k]]
        ELSE s[k]]

(***************************************************************************)
(* Strings as sequences of characters                                      *)
(***************************************************************************)
\* s[a:] of Python with a 1-based start
From(s, a) == SubSeq(s, a, Len(s))

\* s[a-1:b] of Python, clipped to the string as slices are
Sub(s, a, b) ==
    LET lo == IF a < 1 THEN 1 ELSE a
        hi == IF b > Len(s) THEN Len(s) ELSE b
    IN  IF lo > hi THEN <<>> ELSE SubSeq(s, lo, hi)

\* does sub occur in s at position p
Occurs(s, sub, p) ==
    /\ p >= 1
    /\ p + Len(sub) - 1 <= Len(s)
    /\ SubSeq(s, p, p + Len(sub) - 1) = sub

\* sub in s
Contains(s, sub) == \E p \in 1..(Len(s) + 1) : Occurs(s, sub, p)

\* s.startswith(sub)
StartsWith(s, sub) == Occurs(s, sub, 1)

\* the character classes \d, \s, \S, \w, [\d.], [\d\s%] and . (anything but a newline)
InClass(c, cls) ==
    CASE cls = "d" -> IsDigit(c)
      [] cls = "s" -> IsSpace(c)
      [] cls = "S" -> ~IsSpace(c)
      [] cls = "w" -> IsWord(c)
      [] cls = "d." -> IsDigit(c) \/ c = "."
      [] cls = "ds%" -> IsDigit(c) \/ IsSpace(c) \/ c = "%"
      [] cls = "." -> c # "\n"

\* the position after the longest run of characters of class cls that starts at i
ClassRunEnd(str, i, cls) ==
    IF i > Len(str) THEN i
    ELSE CHOOSE j \in i..(Len(str) + 1) :
            /\ \A n \in i..(j - 1) : InClass(str[n], cls)
            /\ (j = Len(str) + 1 \/ ~InClass(str[j], cls))

\* the first position of character c in s, 0 when absent
FirstIndex(s, c) ==
    IF \E k \in 1..Len(s) : s[k] = c
    THEN CHOOSE k \in 1..Len(s) : s[k] = c /\ \A m \in 1..(k - 1) : s[m] # c
    ELSE 0

RECURSIVE Split(_, _)
\* s.split(c) for a one-character separator: always at least one piece
Split(s, c) ==
    IF FirstIndex(s, c) = 0 THEN <<s>>
    ELSE <<SubSeq(s, 1, FirstIndex(s, c) - 1)>> \o Split(From(s, FirstIndex(s, c) + 1), c)

RECURSIVE SplitWS(_)
\* s.split() with no argument: the maximal runs of non-whitespace
SplitWS(s) ==
    IF Len(s) = 0 THEN <<>>
    ELSE IF IsSpace(s[1]) THEN SplitWS(Tail(s))
    ELSE <<SubSeq(s, 1, ClassRunEnd(s, 1, "S") - 1)>> \o SplitWS(From(s, ClassRunEnd(s, 1, "S")))

\* s.strip() == ''
IsBlank(s) == \A k \in 1..Len(s) : IsSpace(s[k])

RECURSIVE Strip(_)
\* s.strip()
Strip(s) ==
    IF Len(s) > 0 /\ IsSpace(s[1]) THEN Strip(Tail(s))
    ELSE IF Len(s) > 0 /\ IsSpace(s[Len(s)]) THEN Strip(SubSeq(s, 1, Len(s) - 1))
    ELSE s

RECURSIVE RStripPercent(_)
\* s.rstrip('%')
RStripPercent(s) ==
    IF Len(s) > 0 /\ s[Len(s)] = "%" THEN RStripPercent(SubSeq(s, 1, Len(s) - 1)) ELSE s

RECURSIVE Join(_)
\* '\n'.join(lines)
Join(lines) ==
    IF Len(lines) = 0 THEN <<>>
    ELSE IF Len(lines) = 1 THEN lines[1]
    ELSE lines[1] \o <<"\n">> \o Join(Tail(lines))

(***************************************************************************)
(* Numbers                                                                 *)
(***************************************************************************)
RECURSIVE ToNat(_)
\* the value of a sequence of decimal digits; the underscores int() accepts
\* between digits do not count
ToNat(ds) ==
    IF Len(ds) = 0 THEN 0
    ELSE IF ds[Len(ds)] = "_" THEN ToNat(SubSeq(ds, 1, Len(ds) - 1))
    ELSE ToNat(SubSeq(ds, 1, Len(ds) - 1)) * 10 + DigitVal(ds[Len(ds)])

\* digits with single underscores between them, as int() accepts
IntBodyOk(t) ==
    /\ Len(t) > 0
    /\ \A k \in 1..Len(t) : IsDigit(t[k]) \/ t[k] = "_"
    /\ IsDigit(t[1]) /\ IsDigit(t[Len(t)])
    /\ \A k \in 1..(Len(t) - 1) : ~(t[k] = "_" /\ t[k + 1] = "_")

\* int(t) returns (it raises ValueError otherwise): surrounding whitespace is
\* stripped, then an optional sign and the digits
IntOk(t) ==
    /\ Len(Strip(t)) > 0
    /\ IntBodyOk(IF Strip(t)[1] \in {"+", "-"} THEN Tail(Strip(t)) ELSE Strip(t))

\* int(t) where IntOk(t)
PyInt(t) ==
    IF Strip(t)[1] = "-" THEN 0 - ToNat(Tail(Strip(t)))
    ELSE IF Strip(t)[1] = "+" THEN ToNat(Tail(Strip(t)))
    ELSE ToNat(Strip(t))

RECURSIVE Gcd(_, _)
Gcd(a, b) == IF b = 0 THEN a ELSE Gcd(b, a % b)

RECURSIVE Pow10(_)
Pow10(n) == IF n = 0 THEN 1 ELSE 10 * Pow10(n - 1)

\* the rational n/d in lowest terms, d > 0, n >= 0
Rat(n, d) == <<n \div Gcd(n, d), d \div Gcd(n, d)>>

\* float(t) returns for a token of digits and dots: at most one dot, at least one digit
FloatOk(t) ==
    /\ \E k \in 1..Len(t) : IsDigit(t[k])
    /\ Cardinality({k \in 1..Len(t) : t[k] = "."}) <= 1
    /\ \A k \in 1..Len(t) : IsDigit(t[k]) \/ t[k] = "."

\* float(t) where FloatOk(t), as an exact rational
PyFloat(t) ==
    LET dot == FirstIndex(t, ".")
        ip == IF dot = 0 THEN t ELSE SubSeq(t, 1, dot - 1)
        fp == IF dot = 0 THEN <<>> ELSE From(t, dot + 1)
    IN  Rat(ToNat(ip) * Pow10(Len(fp)) + ToNat(fp), Pow10(Len(fp)))

MicroDigits == 6

\* round(x, 6) of a non-negative rational, as a count of 10^-6 units (the inputs have
\* no value half-way between two counts, where the float's binary error would decide)
Round6(q) == (2 * q[1] * Pow10(MicroDigits) + q[2]) \div (2 * q[2])

(***************************************************************************)
(* Dictionaries: functions on their set of keys                            *)
(***************************************************************************)
EmptyDict == [k \in {} |-> 0]

Put(d, key, v) == [k \in (DOMAIN d) \cup {key} |-> IF k = key THEN v ELSE d[k]]

(***************************************************************************)
(* The literals of the report grammar                                      *)
(***************************************************************************)
S_RAM_size == <<"R", "A", "M", " ", "s", "i", "z", "e", ":">>
S_RAM_usage == <<"R", "A", "M", " ", "u", "s", "a", "g", "e", ":">>
S_CPU_Freq_MHz == <<"C", "P", "U", " ", "F", "r", "e", "q", " ", "(", "M", "H", "z", ")", ":">>
S_Avr == <<"A", "v", "r", ":">>
S_Tot == <<"T", "o", "t", ":">>

(***************************************************************************)
(* The re module, for the patterns of the source: a pattern is a sequence  *)
(* of elements, matched greedily and with backtracking as re does          *)
(***************************************************************************)
Lit(str) == [k |-> "lit", s |-> str]

\* cls+ and cls* for a character class
Plus(cls) == [k |-> "plus", c |-> cls]

Star(cls) == [k |-> "star", c |-> cls]

\* ( and ) of capture group n
Open(n) == [k |-> "open", n |-> n]

Close(n) == [k |-> "close", n |-> n]

\* (?:sub)? , and x? for a one-element sub
Opt(sub) == [k |-> "opt", p |-> sub]

NoMatch == [ok |-> FALSE, start |-> 0, end |-> 0, caps |-> EmptyDict]

RECURSIVE Match(_, _, _, _, _)
RECURSIVE MatchRun(_, _, _, _, _, _)
\* the match of pattern pat at position p of str, in a match that started at p0 and
\* has the group positions caps so far
Match(str, p0, p, pat, caps) ==
    IF Len(pat) = 0 THEN [ok |-> TRUE, start |-> p0, end |-> p, caps |-> caps]
    ELSE CASE pat[1].k = "lit" ->
                IF Occurs(str, pat[1].s, p)
                THEN Match(str, p0, p + Len(pat[1].s), Tail(pat), caps)
                ELSE NoMatch
           [] pat[1].k = "open" ->
                Match(str, p0, p, Tail(pat), Put(caps, pat[1].n, <<p, p>>))
           [] pat[1].k = "close" ->
                Match(str, p0, p, Tail(pat), Put(caps, pat[1].n, <<caps[pat[1].n][1], p>>))
           [] pat[1].k = "opt" ->
                IF Match(str, p0, p, pat[1].p \o Tail(pat), caps).ok
                THEN Match(str, p0, p, pat[1].p \o Tail(pat), caps)
                ELSE Match(str, p0, p, Tail(pat), caps)
           [] pat[1].k = "plus" ->
                MatchRun(str, p0, ClassRunEnd(str, p, pat[1].c), p + 1, Tail(pat), caps)
           [] pat[1].k = "star" ->
                MatchRun(str, p0, ClassRunEnd(str, p, pat[1].c), p, Tail(pat), caps)

\* the run ends at j, or gives characters back down to lo, until the rest matches
MatchRun(str, p0, j, lo, rest, caps) ==
    IF j < lo THEN NoMatch
    ELSE IF Match(str, p0, j, rest, caps).ok THEN Match(str, p0, j, rest, caps)
    ELSE MatchRun(str, p0, j - 1, lo, rest, caps)

\* re.match(pat, str)
ReMatch(pat, str) == Match(str, 1, 1, pat, EmptyDict)

\* the match at the leftmost of the positions S at which pat matches
MatchAmong(pat, str, S) ==
    IF S = {} THEN NoMatch
    ELSE Match(str, CHOOSE q \in S : \A r \in S : q <= r,
               CHOOSE q \in S : \A r \in S : q <= r, pat, EmptyDict)

\* the leftmost match that starts at p or later
SearchFrom(pat, str, p) ==
    MatchAmong(pat, str, {q \in p..(Len(str) + 1) : Match(str, q, q, pat, EmptyDict).ok})

\* re.search(pat, str)
ReSearch(pat, str) == SearchFrom(pat, str, 1)

\* m.group(n)
Group(str, m, n) == Sub(str, m.caps[n][1], m.caps[n][2] - 1)

RECURSIVE FindAllFrom(_, _, _)
\* the match m, then the matches after it (one position further after an empty match)
FindAllAfter(pat, str, m) ==
    IF ~m.ok THEN <<>>
    ELSE <<Sub(str, m.start, m.end - 1)>>
         \o FindAllFrom(pat, str, IF m.end > m.start THEN m.end ELSE m.end + 1)

\* the matches of a pattern without groups from p on, left to right, not overlapping
FindAllFrom(pat, str, p) == FindAllAfter(pat, str, SearchFrom(pat, str, p))

\* re.findall(pat, str)
ReFindAll(pat, str) == FindAllFrom(pat, str, 1)

\* r'<label>\s+(\d+)', the pattern of the two thread counts
RE_number_after(label) == <<Lit(label), Plus("s"), Open(1), Plus("d"), Close(1)>>

\* r'<label>\s+([0-9]+)\s+MB', the pattern of the two RAM figures
RE_megabytes_after(label) == RE_number_after(label) \o <<Plus("s"), Lit(<<"M", "B">>)>>

\* r'(\d+T)\s+CPU Freq \(MHz\):\s+(.*)'
RE_cpu_freq ==
    <<Open(1), Plus("d"), Lit(<<"T">>), Close(1), Plus("s"), Lit(S_CPU_Freq_MHz), Plus("s"),
      Open(2), Star("."), Close(2)>>

\* r'(\w+)\s+Time\s+=\s+([\d.]+)\s+=\s+(\d+)%'
RE_timing ==
    <<Open(1), Plus("w"), Close(1), Plus("s"), Lit(<<"T", "i", "m", "e">>), Plus("s"), Lit(<<"=">>),
      Plus("s"), Open(2), Plus("d."), Close(2), Plus("s"), Lit(<<"=">>), Plus("s"),
      Open(3), Plus("d"), Close(3), Lit(<<"%">>)>>

\* r'\d+'
RE_digits == <<Plus("d")>>

\* r'Tot:\s+([\d\s%]+)'
RE_tot == <<Lit(S_Tot), Plus("s"), Open(1), Plus("ds%"), Close(1)>>

\* r'^(\d+):\s+(.*)'
RE_data == <<Open(1), Plus("d"), Close(1), Lit(<<":">>), Plus("s"), Open(2), Star("."), Close(2)>>

\* r"([0-9]+(?:\.[0-9]+)?)\s*MB/s"
RE_MB_s ==
    <<Open(1), Plus("d"), Opt(<<Lit(<<".">>), Plus("d")>>), Close(1), Star("s"), Lit(<<"M", "B", "/", "s">>)>>

\* r"([0-9]+(?:\.[0-9]+)?)\s*KB/s"
RE_KB_s ==
    <<Open(1), Plus("d"), Opt(<<Lit(<<".">>), Plus("d")>>), Close(1), Star("s"), Lit(<<"K", "B", "/", "s">>)>>

(***************************************************************************)
(* parse_7z_benchmark_output: the first loop (system info and timing)      *)
(***************************************************************************)
\* system_info with key set to int(group 1) of the search result m, when found
PutFound(system_info, key, line, m) ==
    IF m.ok THEN Put(system_info, key, PyInt(Group(line, m, 1))) ELSE system_info

\* the 'RAM size:' block
ScanRamSize(system_info, line) ==
    IF ~Contains(line, S_RAM_size) THEN system_info
    ELSE PutFound(PutFound(system_info, "ram_mb", line,
                           ReSearch(RE_megabytes_after(S_RAM_size), line)),
                  "cpu_threads", line,
                  \* '# CPU hardware threads:'
                  ReSearch(RE_number_after(<<"#", " ", "C", "P", "U", " ", "h", "a", "r", "d",
                                             "w", "a", "r", "e", " ", "t", "h", "r", "e", "a",
                                             "d", "s", ":">>),
                           line))

\* the 'RAM usage:' block
ScanRamUsage(system_info, line) ==
    IF ~Contains(line, S_RAM_usage) THEN system_info
    ELSE PutFound(PutFound(system_info, "ram_usage_mb", line,
                           ReSearch(RE_megabytes_after(S_RAM_usage), line)),
                  "benchmark_threads", line,
                  \* '# Benchmark threads:'
                  ReSearch(RE_number_after(<<"#", " ", "B", "e", "n", "c", "h", "m", "a", "r",
                                             "k", " ", "t", "h", "r", "e", "a", "d", "s", ":">>),
                           line))

\* match.group(2).strip().split(), each with rstrip('%')
Freqs(rest) == [n \in 1..Len(SplitWS(rest)) |-> RStripPercent(SplitWS(rest)[n])]

\* the body under `if match:` for the match result m of the CPU Freq pattern: the
\* list of int(f) when every int() returns
PutFreqs(cpu_freq, line, m) ==
    IF ~m.ok THEN [raised |-> FALSE, cpu_freq |-> cpu_freq]
    ELSE IF \E n \in 1..Len(Freqs(Group(line, m, 2))) : ~IntOk(Freqs(Group(line, m, 2))[n])
    THEN [raised |-> TRUE, cpu_freq |-> cpu_freq]
    ELSE [raised |-> FALSE,
          cpu_freq |-> Put(cpu_freq, Group(line, m, 1),
                           [n \in 1..Len(Freqs(Group(line, m, 2))) |->
                               PyInt(Freqs(Group(line, m, 2))[n])])]

\* the 'CPU Freq' block: the key cpu_freq_<prefix> is kept under <prefix> in cpu_freq;
\* int() of a frequency token can raise ValueError
ScanCpuFreq(cpu_freq, line) ==
    IF ~Contains(line, <<"C", "P", "U", " ", "F", "r", "e", "q">>)
    THEN [raised |-> FALSE, cpu_freq |-> cpu_freq]
    ELSE PutFreqs(cpu_freq, line, ReMatch(RE_cpu_freq, line))

\* the body under `if match:` for the match result m of the timing pattern
PutTiming(timing, line, m) ==
    IF ~m.ok THEN [raised |-> FALSE, timing |-> timing]
    ELSE IF ~FloatOk(Group(line, m, 2)) THEN [raised |-> TRUE, timing |-> timing]
    ELSE [raised |-> FALSE,
          timing |-> Put(timing, Lower(Group(line, m, 1)),
                         [seconds |-> PyFloat(Group(line, m, 2)),
                          percent |-> PyInt(Group(line, m, 3))])]

\* the timing block: float() of the seconds token can raise ValueError
ScanTiming(timing, line) ==
    IF ~(\/ Contains(line, <<"K", "e", "r", "n", "e", "l", " ", " ", "T", "i", "m", "e">>)
         \/ Contains(line, <<"U", "s", "e", "r", " ", " ", " ", " ", "T", "i", "m", "e">>)
         \/ Contains(line, <<"P", "r", "o", "c", "e", "s", "s", " ", "T", "i", "m", "e">>)
         \/ Contains(line, <<"G", "l", "o", "b", "a", "l", " ", " ", "T", "i", "m", "e">>))
    THEN [raised |-> FALSE, timing |-> timing]
    ELSE PutTiming(timing, line, ReMatch(RE_timing, line))

\* the returned dict as first built; system_info is the pair of system_info (the
\* four fixed keys) and cpu_freq (the cpu_freq_<prefix> keys)
EmptyResult ==
    [benchmark_table |-> <<>>, averages |-> EmptyDict, totals |-> EmptyDict,
     system_info |-> EmptyDict, cpu_freq |-> EmptyDict, timing |-> EmptyDict]

\* one iteration of the first loop over the lines
ScanLine(result, line) ==
    [raised |-> ScanCpuFreq(result.cpu_freq, line).raised
                \/ ScanTiming(result.timing, line).raised,
     result |-> [result EXCEPT
                   !.system_info = ScanRamUsage(ScanRamSize(result.system_info, line), line),
                   !.cpu_freq = ScanCpuFreq(result.cpu_freq, line).cpu_freq,
                   !.timing = ScanTiming(result.timing, line).timing]]

(***************************************************************************)
(* parse_7z_benchmark_output: the header search and the table loop         *)
(***************************************************************************)
IsHeader(line) ==
    /\ Contains(line, <<"D", "i", "c", "t">>)
    /\ Contains(line, <<"S", "p", "e", "e", "d">>)
    /\ Contains(line, <<"U", "s", "a", "g", "e">>)

\* header_idx: the 1-based index of the first header line, 0 for the source's -1
HeaderIdx(lines) ==
    IF \E k \in 1..Len(lines) : IsHeader(lines[k])
    THEN CHOOSE k \in 1..Len(lines) :
            IsHeader(lines[k]) /\ \A m \in 1..(k - 1) : ~IsHeader(lines[m])
    ELSE 0

\* the first `if` of the loop body: sub-header lines and empty lines
IsSkipped(line) ==
    \/ IsBlank(line)
    \/ Contains(line, <<"K", "i", "B", "/", "s">>)
    \/ Contains(line, <<"C", "o", "m", "p", "r", "e", "s", "s", "i", "n", "g">>)

\* the second `if`: a separator line
IsSeparator(line) == Contains(line, <<"-", "-">>) /\ Contains(line, <<"|">>)

\* PutHalf with a half of fewer than four numbers zero-filled
PutHalf_zero_filled(averages, keys, nums) ==
    [k \in (DOMAIN averages) \cup Range(keys) |->
        IF k \in Range(keys)
        THEN (IF Len(nums) >= 4 THEN PyInt(nums[CHOOSE n \in 1..4 : keys[n] = k]) ELSE 0)
        ELSE averages[k]]

\* the numbers of one half of the averages line, set when there are four
PutHalf(averages, keys, nums) ==
    IF Len(nums) < 4 THEN averages
    ELSE [k \in (DOMAIN averages) \cup Range(keys) |->
            IF k \in Range(keys)
            THEN PyInt(nums[CHOOSE n \in 1..4 : keys[n] = k])
            ELSE averages[k]]

CompressKeys == <<"compress_speed", "compress_usage", "compress_r_u", "compress_rating">>

DecompressKeys ==
    <<"decompress_speed", "decompress_usage", "decompress_r_u", "decompress_rating">>

\* the `Avr:` branch: parts[0][4:] and parts[1], the numbers found by \d+
ParseAvr(averages, line) ==
    IF Len(Split(line, "|")) < 2
    THEN PutHalf(averages, CompressKeys,
                 ReFindAll(RE_digits, From(Split(line, "|")[1], Len(S_Avr) + 1)))
    ELSE PutHalf(PutHalf(averages, CompressKeys,
                         ReFindAll(RE_digits, From(Split(line, "|")[1], Len(S_Avr) + 1))),
                 DecompressKeys, ReFindAll(RE_digits, Split(line, "|")[2]))

\* the three totals when there are three numbers: int() of a number that kept its
\* '%' raises ValueError
PutTotals(totals, numbers) ==
    IF Len(numbers) < 3 THEN [raised |-> FALSE, totals |-> totals]
    ELSE IF \E n \in 1..3 : ~IntOk(numbers[n])
    THEN [raised |-> TRUE, totals |-> totals]
    ELSE [raised |-> FALSE,
          totals |-> Put(Put(Put(totals, "usage", PyInt(numbers[1])),
                             "r_u", PyInt(numbers[2])),
                         "rating", PyInt(numbers[3]))]

\* the `Tot:` branch: the numbers are the matches of r'[\d.]+%?' in group 1
ParseTot(totals, line) ==
    IF ~ReMatch(RE_tot, line).ok THEN [raised |-> FALSE, totals |-> totals]
    ELSE PutTotals(totals,
                   ReFindAll(<<Plus("d."), Opt(<<Lit(<<"%">>)>>)>>,
                             Group(line, ReMatch(RE_tot, line), 1)))

\* the metrics dict of one half of a data row
Metrics(nums) ==
    [speed |-> PyInt(nums[1]), usage |-> PyInt(nums[2]),
     r_u |-> PyInt(nums[3]), rating |-> PyInt(nums[4])]

\* a half of a data row is used when it has four whitespace-separated tokens
HalfUsed(nums) == Len(nums) >= 4

\* int() of one of the first four tokens of a used half raises ValueError
HalfRaises(nums) == HalfUsed(nums) /\ \E k \in 1..4 : ~IntOk(nums[k])

\* the row dict built from group 1 and the tokens of the two halves (no tokens for
\* a second half the line does not have)
Row(dict_size, comp_nums, decomp_nums) ==
    IF HalfRaises(comp_nums) \/ HalfRaises(decomp_nums)
    THEN [raised |-> TRUE, row |-> EmptyDict]
    ELSE [raised |-> FALSE,
          row |-> [k \in {"dict"} \cup (IF HalfUsed(comp_nums) THEN {"compress"} ELSE {})
                                  \cup (IF HalfUsed(decomp_nums) THEN {"decompress"} ELSE {}) |->
                    IF k = "dict" THEN PyInt(dict_size)
                    ELSE IF k = "compress" THEN Metrics(comp_nums)
                    ELSE Metrics(decomp_nums)]]

\* the data-row branch, for a line RE_data matches
ParseRow(line) ==
    Row(Group(line, ReMatch(RE_data, line), 1),
        SplitWS(Split(Group(line, ReMatch(RE_data, line), 2), "|")[1]),
        IF Len(Split(Group(line, ReMatch(RE_data, line), 2), "|")) >= 2
        THEN SplitWS(Split(Group(line, ReMatch(RE_data, line), 2), "|")[2])
        ELSE <<>>)

\* EndsTable with the last `if` never taken
EndsTable_never(line) == FALSE

\* the last `if` of the loop body: a non-blank line that does not start with whitespace
EndsTable(line) == ~IsBlank(line) /\ ~IsSpace(line[1])

\* one iteration of the while loop on one line; ctl is "next" (i += 1), "break"
\* or "raise" (ValueError leaves the function)
TableLine(result, line) ==
    IF IsSkipped(line) \/ IsSeparator(line)
    THEN [ctl |-> "next", result |-> result]
    ELSE IF StartsWith(line, S_Avr)
    THEN [ctl |-> "next",
          result |-> [result EXCEPT !.averages = ParseAvr(result.averages, line)]]
    ELSE IF StartsWith(line, S_Tot)
    THEN [ctl |-> IF ParseTot(result.totals, line).raised THEN "raise" ELSE "next",
          result |-> [result EXCEPT !.totals = ParseTot(result.totals, line).totals]]
    ELSE IF ReMatch(RE_data, line).ok
    THEN IF ParseRow(line).raised THEN [ctl |-> "raise", result |-> result]
         ELSE [ctl |-> "next",
               result |-> [result EXCEPT
                             !.benchmark_table =
                                 Append(result.benchmark_table, ParseRow(line).row)]]
    ELSE IF EndsTable(line)
    THEN [ctl |-> "break", result |-> result]
    ELSE [ctl |-> "next", result |-> result]

(***************************************************************************)
(* parse_7z_benchmark_output as a function of the text                     *)
(***************************************************************************)
RECURSIVE ScanLines(_, _, _)
\* the first loop after line i gave s: a raise ends it
ScanRest(s, lines, i) == IF s.raised THEN s ELSE ScanLines(s.result, lines, i + 1)

\* the first loop from line i on
ScanLines(result, lines, i) ==
    IF i > Len(lines) THEN [raised |-> FALSE, result |-> result]
    ELSE ScanRest(ScanLine(result, lines[i]), lines, i)

RECURSIVE TableLines(_, _, _)
\* the while loop after line i gave t: a raise or a break ends it
TableRest(t, lines, i) ==
    IF t.ctl = "raise" THEN [raised |-> TRUE, result |-> t.result]
    ELSE IF t.ctl = "break" THEN [raised |-> FALSE, result |-> t.result]
    ELSE TableLines(t.result, lines, i + 1)

\* the while loop from line i on
TableLines(result, lines, i) ==
    IF i > Len(lines) THEN [raised |-> FALSE, result |-> result]
    ELSE TableRest(TableLine(result, lines[i]), lines, i)

\* the header search and the while loop, after the first loop gave s
TableAfterScan(s, lines, h) ==
    IF s.raised \/ h = 0 THEN s ELSE TableLines(s.result, lines, h + 1)

\* the function on text.split('\n')
ParseLines(lines) == TableAfterScan(ScanLines(EmptyResult, lines, 1), lines, HeaderIdx(lines))

\* raised: ValueError propagates to the caller; otherwise result is returned
parse_7z_benchmark_output(text) == ParseLines(Split(text, "\n"))

(***************************************************************************)
(* parse_throughput                                                        *)
(***************************************************************************)
None == <<>>

Some(v) == <<v>>

KBPerMB == 1024

\* float(m.group(1)) of a found throughput token, divided by `per`
TokenValue(text, m, per) ==
    Some(Rat(PyFloat(Group(text, m, 1))[1], PyFloat(Group(text, m, 1))[2] * per))

\* None, or the MB/s value as a rational
parse_throughput(text) ==
    IF ReSearch(RE_MB_s, text).ok THEN TokenValue(text, ReSearch(RE_MB_s, text), 1)
    ELSE IF ReSearch(RE_KB_s, text).ok
    THEN TokenValue(text, ReSearch(RE_KB_s, text), KBPerMB)
    ELSE None

(***************************************************************************)
(* safe_stats, over values counted in 10^-6 units                          *)
(***************************************************************************)
RECURSIVE Sum(_)
Sum(values) == IF Len(values) = 0 THEN 0 ELSE values[1] + Sum(Tail(values))

RECURSIVE SumSq(_)
SumSq(values) ==
    IF Len(values) = 0 THEN 0 ELSE values[1] * values[1] + SumSq(Tail(values))

RECURSIVE Insert(_, _)
Insert(sorted, x) ==
    IF Len(sorted) = 0 THEN <<x>>
    ELSE IF x <= sorted[1] THEN <<x>> \o sorted
    ELSE <<sorted[1]>> \o Insert(Tail(sorted), x)

RECURSIVE Sorted(_)
\* sorted(values)
Sorted(values) ==
    IF Len(values) = 0 THEN <<>> ELSE Insert(Sorted(Tail(values)), values[1])

\* statistics.mean
Mean(values) == Rat(Sum(values), Len(values))

\* statistics.median: the middle value, or the mean of the two middle values
Median(values) ==
    LET s == Sorted(values)
        n == Len(values)
    IN  IF n % 2 = 1 THEN Rat(s[(n + 1) \div 2], 1)
        ELSE Rat(s[n \div 2] + s[n \div 2 + 1], 2)

\* statistics.stdev for two or more values: the square root of the sample variance,
\* kept as the variance it is the root of
Stdev(values) ==
    LET n == Len(values)
    IN  [sqrt_of |-> Rat(n * SumSq(values) - Sum(values) * Sum(values), n * (n - 1))]

\* the float 0.0 as a standard deviation
ZeroStdev == [sqrt_of |-> <<0, 1>>]

\* safe_stats without the stdev of a one-element list
safe_stats_nostdev(values) ==
    IF Len(values) = 0 THEN [count |-> 0]
    ELSE IF Len(values) > 1
    THEN [count |-> Len(values), mean |-> Mean(values), median |-> Median(values),
          stdev |-> Stdev(values)]
    ELSE [count |-> Len(values), mean |-> Mean(values), median |-> Median(values)]

safe_stats(values) ==
    IF Len(values) = 0 THEN [count |-> 0]
    ELSE IF Len(values) > 1
    THEN [count |-> Len(values), mean |-> Mean(values), median |-> Median(values),
          stdev |-> Stdev(values)]
    ELSE [count |-> Len(values), mean |-> Mean(values), median |-> Median(values),
          stdev |-> ZeroStdev]

(***************************************************************************)
(* The lines the inputs are built from                                     *)
(***************************************************************************)
\* ''
L_empty == <<>>

\* 'end'
L_garbage == <<"e", "n", "d">>

\* 'Dict Speed Usage'
L_header == <<"D", "i", "c", "t", " ", "S", "p", "e", "e", "d", " ", "U", "s", "a", "g", "e">>

\* '22: 1 2 3 4 | 5 6 7 8'
L_row == <<"2", "2", ":", " ", "1", " ", "2", " ", "3", " ", "4", " ", "|", " ", "5", " ", "6", " ", "7", " ", "8">>

\* '25: 1 2 3 x'
L_row_bad == <<"2", "5", ":", " ", "1", " ", "2", " ", "3", " ", "x">>

\* 'Avr: 9 9 9 | 5 6 7 8'
L_avr_short == <<"A", "v", "r", ":", " ", "9", " ", "9", " ", "9", " ", "|", " ", "5", " ", "6", " ", "7", " ", "8">>

\* 'Tot: 1 2 3'
L_tot == <<"T", "o", "t", ":", " ", "1", " ", "2", " ", "3">>

\* the lines a report text is drawn from
LineCorpus ==
    {L_empty, L_garbage, L_header, L_row, L_row_bad, L_avr_short, L_tot,
     \* 'Avr: 1 2 3 4 | --'
     <<"A", "v", "r", ":", " ", "1", " ", "2", " ", "3", " ", "4", " ", "|", " ", "-", "-">>,
     \* '1T CPU Freq (MHz): x'
     <<"1", "T", " ">> \o S_CPU_Freq_MHz \o <<" ", "x">>,
     \* '23: 1 2 3 4'
     <<"2", "3", ":", " ", "1", " ", "2", " ", "3", " ", "4">>,
     \* '24: 9 9 9 | 5 6 7 8'
     <<"2", "4", ":", " ", "9", " ", "9", " ", "9", " ", "|", " ", "5", " ", "6", " ", "7",
       " ", "8">>,
     \* '26:1 2 3 4'
     <<"2", "6", ":", "1", " ", "2", " ", "3", " ", "4">>,
     \* 'Avr: 1 2 3 4 | 5 6 7 8'
     <<"A", "v", "r", ":", " ", "1", " ", "2", " ", "3", " ", "4", " ", "|", " ", "5", " ",
       "6", " ", "7", " ", "8">>,
     \* 'RAM size: 8 MB'
     <<"R", "A", "M", " ", "s", "i", "z", "e", ":", " ", "8", " ", "M", "B">>}

MaxLines == 3

RECURSIVE SeqsUpTo(_, _)
\* the sequences over S of length at most n
SeqsUpTo(S, n) ==
    IF n = 0 THEN {<<>>}
    ELSE SeqsUpTo(S, n - 1) \cup
         {Append(q, x) : q \in {r \in SeqsUpTo(S, n - 1) : Len(r) = n - 1}, x \in S}

\* the report texts: '' and the texts of one to MaxLines lines, and the tables of up
\* to MaxLines lines under a header, of data rows and of the lines the loop skips,
\* and the texts of fewer than MaxLines timing lines
Texts ==
    {Join(ls) : ls \in SeqsUpTo(LineCorpus, MaxLines)}
    \cup {Join(<<L_header>> \o ls) :
            ls \in SeqsUpTo({L_empty, L_row,
                             \* '27: -1 2 3 4'
                             <<"2", "7", ":", " ", "-", "1", " ", "2", " ", "3", " ", "4">>,
                             \* ' KiB/s'
                             <<" ", "K", "i", "B", "/", "s">>,
                             \* 'Compressing'
                             <<"C", "o", "m", "p", "r", "e", "s", "s", "i", "n", "g">>,
                             \* '--|'
                             <<"-", "-", "|">>,
                             \* ' x'
                             <<" ", "x">>},
                            MaxLines)}
    \cup {Join(ls) :
            ls \in SeqsUpTo({
                  \* 'Kernel  Time = 0.9 = 1%'
                  <<"K", "e", "r", "n", "e", "l", " ", " ", "T", "i", "m", "e", " ", "=", " ", "0", ".", "9", " ", "=", " ", "1", "%">>,
                  \* 'Kernel  Time = 2 = 3%'
                  <<"K", "e", "r", "n", "e", "l", " ", " ", "T", "i", "m", "e", " ", "=", " ", "2", " ", "=", " ", "3", "%">>,
                  \* 'User    Time = 1.5 = 2%'
                  <<"U", "s", "e", "r", " ", " ", " ", " ", "T", "i", "m", "e", " ", "=", " ", "1", ".", "5", " ", "=", " ", "2", "%">>,
                  \* 'xProcess Time = 0.9 = 1%'
                  <<"x", "P", "r", "o", "c", "e", "s", "s", " ", "T", "i", "m", "e", " ", "=", " ", "0", ".", "9", " ", "=", " ", "1", "%">>,
                  \* ' Global  Time = 0.9 = 1%'
                  <<" ", "G", "l", "o", "b", "a", "l", " ", " ", "T", "i", "m", "e", " ", "=", " ", "0", ".", "9", " ", "=", " ", "1", "%">>,
                  \* 'Global  Time = 1.2.3 = 1%'
                  <<"G", "l", "o", "b", "a", "l", " ", " ", "T", "i", "m", "e", " ", "=", " ", "1", ".", "2", ".", "3", " ", "=", " ", "1", "%">>},
                            MaxLines - 1)}

(***************************************************************************)
(* main: the resolution of the iteration count                             *)
(***************************************************************************)
S_DEFAULT_ITERATIONS == <<"D", "E", "F", "A", "U", "L", "T", "_", "I", "T", "E", "R", "A", "T", "I", "O", "N", "S">>

\* int(s) inside try/except: the value, or None when it raises
TryInt(s) == IF IntOk(s) THEN Some(PyInt(s)) ELSE None

\* os.environ.get('ITERATIONS') or os.environ.get('DEFAULT_ITERATIONS'), then int()
\* when the string is not empty
EnvIterations(environ) ==
    LET env_it == IF environ.ITERATIONS # None /\ Len(environ.ITERATIONS[1]) > 0
                  THEN environ.ITERATIONS
                  ELSE environ.DEFAULT_ITERATIONS
    IN  IF env_it # None /\ Len(env_it[1]) > 0 THEN TryInt(env_it[1]) ELSE None

RECURSIVE ConfIterations(_)
\* the loop over the lines of bench.conf: the first DEFAULT_ITERATIONS key decides
ConfIterations(conf_lines) ==
    IF Len(conf_lines) = 0 THEN None
    ELSE LET line == Strip(conf_lines[1])
             eq == FirstIndex(line, "=")
         IN  IF Len(line) = 0 \/ line[1] = "#" THEN ConfIterations(Tail(conf_lines))
             ELSE IF eq # 0 /\ Strip(Sub(line, 1, eq - 1)) = S_DEFAULT_ITERATIONS
             THEN TryInt(Strip(Sub(line, eq + 1, Len(line))))
             ELSE ConfIterations(Tail(conf_lines))

DefaultIterations == 1

\* precedence: --iterations, the environment, bench.conf (None: no such file), 1
ResolveIterations(cli, environ, bench_conf) ==
    IF cli # None THEN cli[1]
    ELSE IF EnvIterations(environ) # None THEN EnvIterations(environ)[1]
    ELSE IF bench_conf # None /\ ConfIterations(Split(bench_conf[1], "\n")) # None
    THEN ConfIterations(Split(bench_conf[1], "\n"))[1]
    ELSE DefaultIterations

(***************************************************************************)
(* main: the inputs                                                        *)
(***************************************************************************)
MaxIter == 3

NoEnv == [ITERATIONS |-> None, DEFAULT_ITERATIONS |-> None]

Environs ==
    {NoEnv,
     [ITERATIONS |-> Some(<<"2">>), DEFAULT_ITERATIONS |-> None],
     [ITERATIONS |-> Some(<<>>), DEFAULT_ITERATIONS |-> Some(<<"0">>)],
     [ITERATIONS |-> Some(<<"x">>), DEFAULT_ITERATIONS |-> Some(<<"2">>)]}

BenchConfs ==
    {None,
     Some(S_DEFAULT_ITERATIONS \o <<"=", "2">>),
     Some(<<"#", " ", "c", "\n", "X", "=", "1", "\n">> \o S_DEFAULT_ITERATIONS
          \o <<" ", "=", " ", "0", "\n">>),
     Some(S_DEFAULT_ITERATIONS \o <<"=", "a", "b", "c">>)}

\* --cooldown (seconds, a rational), --timeout (None or seconds), --keep-raw
Flags ==
    {[cooldown |-> c, timeout |-> t, keep_raw |-> k] :
        c \in {<<0, 1>>, <<1, 2>>}, t \in {None, Some(<<1, 1>>)}, k \in BOOLEAN}

\* the launches: --iterations given (with or without an environment that disagrees),
\* or left to the environment and bench.conf
Launches ==
    {[iterations |-> Some(n), environ |-> e, bench_conf |-> None, flags |-> f] :
        n \in (0 - 1)..MaxIter, e \in {NoEnv, [ITERATIONS |-> Some(<<"2">>), DEFAULT_ITERATIONS |-> None]},
        f \in Flags}
    \cup
    {[iterations |-> None, environ |-> e, bench_conf |-> b, flags |-> f] :
        e \in Environs, b \in BenchConfs, f \in Flags}

\* what run_one can return: elapsed (seconds, here a few microseconds), proc.returncode,
\* proc.stdout, proc.stderr
RunResults ==
    {\* a report with '0.004 MB/s' after it
     [elapsed |-> <<1, 500000>>, returncode |-> 0,
      stdout |-> Join(<<L_header, L_row, L_tot,
                        <<"0", ".", "0", "0", "4", " ", "M", "B", "/", "s">>>>),
      stderr |-> <<>>],
     \* a failed run that printed 'error' on stderr
     [elapsed |-> <<3, 1000000>>, returncode |-> 2, stdout |-> <<>>,
      stderr |-> <<"e", "r", "r", "o", "r">>],
     \* no report, '2 KB/s' on stderr
     [elapsed |-> <<1, 200000>>, returncode |-> 0, stdout |-> L_garbage,
      stderr |-> <<"2", " ", "K", "B", "/", "s">>],
     \* a report whose data row has a non-numeric token
     [elapsed |-> <<1, 1000000>>, returncode |-> 0,
      stdout |-> Join(<<L_header, L_row_bad>>), stderr |-> <<>>]}

(***************************************************************************)
(* main: the samples and the results document                              *)
(***************************************************************************)

\* TimeoutSample with an elapsed time of 0.0 in place of None
TimeoutSample_zero_elapsed(n) ==
    [run |-> n, elapsed_s |-> Some(0), returncode |-> None, throughput_MB_s |-> None,
     note |-> "timeout"]

\* the sample appended when run_one raises TimeoutExpired
TimeoutSample(n) ==
    [run |-> n, elapsed_s |-> None, returncode |-> None, throughput_MB_s |-> None,
     note |-> "timeout"]

\* the except branch without its append
SamplesAfterTimeout_dropped(s, n) == s

\* samples after the except branch of iteration n
SamplesAfterTimeout(s, n) == Append(s, TimeoutSample(n))

\* raw_fname of iteration n, as the name the file is kept under in raw_dir
RawFname(n) == <<"run", n>>

\* what is written to raw_fname
RawLogText(r) ==
    <<"=", "=", "=", " ", "S", "T", "D", "O", "U", "T", " ", "=", "=", "=", "\n">>
    \o r.stdout
    \o <<"\n", "=", "=", "=", " ", "S", "T", "D", "E", "R", "R", " ", "=", "=", "=", "\n">>
    \o r.stderr

\* the sample of a run that returned r, with tp the parsed throughput and the report
\* parsed into benchmark_data
NormalSample(n, r, tp, benchmark_data, keep_raw) ==
    [run |-> n,
     elapsed_s |-> Some(Round6(r.elapsed)),
     returncode |-> Some(r.returncode),
     throughput_MB_s |-> IF tp # None THEN Some(Round6(tp[1])) ELSE None,
     benchmark |-> benchmark_data,
     raw_log |-> IF ~keep_raw THEN Some(RawFname(n)) ELSE None]

RECURSIVE NotNone(_, _)
\* [s[field] for s in samples if s[field] is not None]
NotNone(s, field) ==
    IF Len(s) = 0 THEN <<>>
    ELSE IF s[1][field] # None THEN <<s[1][field][1]>> \o NotNone(Tail(s), field)
    ELSE NotNone(Tail(s), field)

\* the results dict, without the platform metadata and the command line
Results(n, s) ==
    [params |-> [iterations |-> n],
     samples |-> s,
     stats |-> [elapsed |-> safe_stats(NotNone(s, "elapsed_s")),
                throughput_MB_s |-> safe_stats(NotNone(s, "throughput_MB_s"))]]

(***************************************************************************)
(* aggregate_results.py: JSON values, row_from_json, the sort              *)
(***************************************************************************)
\* a JSON value as Python holds it: t is "str", "num", "bool" or "dict", and the
\* field of that type carries the value (the others are idle)
Value(t, str, n, d) == [t |-> t, s |-> str, n |-> n, d |-> d]

\* '' , the default of safe_get and of the .get calls on params
EmptyStr == Value("str", <<>>, 0, EmptyDict)

\* v.get(k, default) for a dict v
Get(v, k, default) == IF k \in DOMAIN v.d THEN v.d[k] ELSE default

RECURSIVE safe_get(_, _)
\* safe_get(d, *keys) with default=''
safe_get(cur, keys) ==
    IF Len(keys) = 0 THEN cur
    ELSE IF cur.t # "dict" THEN EmptyStr
    ELSE safe_get(Get(cur, keys[1], EmptyStr), Tail(keys))

\* a or b: a when it is truthy
OrElse(a, b) ==
    IF \/ a.t = "str" /\ Len(a.s) > 0
       \/ a.t \in {"num", "bool"} /\ a.n # 0
       \/ a.t = "dict" /\ DOMAIN a.d # {}
    THEN a
    ELSE b

\* row_from_json for the file called name: data is None when json.loads raises
\* (the row is None then); .get on a value that is not a dict raises AttributeError
row_from_json(name, data) ==
    IF data = None THEN [raised |-> FALSE, row |-> None]
    ELSE IF \/ data[1].t # "dict"
            \/ Get(data[1], "platform", Value("dict", <<>>, 0, EmptyDict)).t # "dict"
            \/ Get(data[1], "params", Value("dict", <<>>, 0, EmptyDict)).t # "dict"
    THEN [raised |-> TRUE, row |-> None]
    ELSE LET info == Get(Get(data[1], "platform", Value("dict", <<>>, 0, EmptyDict)),
                         "info", Value("dict", <<>>, 0, EmptyDict))
             params == Get(data[1], "params", Value("dict", <<>>, 0, EmptyDict))
             stats == Get(data[1], "stats", Value("dict", <<>>, 0, EmptyDict))
         IN  [raised |-> FALSE,
              row |-> Some(
                [file |-> Value("str", name, 0, EmptyDict),
                 platform_node |-> OrElse(OrElse(safe_get(info, <<"hostname">>),
                                                 safe_get(info, <<"uname", "node">>)),
                                          EmptyStr),
                 cpu_model |-> OrElse(safe_get(info, <<"model_name">>), EmptyStr),
                 physical_cores |-> OrElse(safe_get(info, <<"cores_per_socket">>), EmptyStr),
                 logical_cores |-> OrElse(safe_get(info, <<"logical_cpus">>), EmptyStr),
                 ht |-> safe_get(info, <<"ht">>),
                 mx |-> Get(params, "mx", EmptyStr),
                 mmt |-> Get(params, "mmt", EmptyStr),
                 md |-> Get(params, "md", EmptyStr),
                 iterations |-> Get(params, "iterations", EmptyStr),
                 avg_s |-> IF safe_get(stats, <<"elapsed">>).t = "dict"
                           THEN safe_get(stats, <<"elapsed", "mean">>)
                           ELSE EmptyStr,
                 stddev_s |-> IF safe_get(stats, <<"elapsed">>).t = "dict"
                              THEN safe_get(stats, <<"elapsed", "stdev">>)
                              ELSE EmptyStr,
                 throughput_MB_s |-> IF safe_get(stats, <<"throughput_MB_s">>).t = "dict"
                                     THEN safe_get(stats, <<"throughput_MB_s", "mean">>)
                                     ELSE EmptyStr])]

\* int(v): a number or a bool as it is, a str through int(), TypeError for a dict
IntOf(v) ==
    IF v.t \in {"num", "bool"} THEN [raised |-> FALSE, n |-> v.n]
    ELSE IF v.t = "str" /\ IntOk(v.s) THEN [raised |-> FALSE, n |-> PyInt(v.s)]
    ELSE [raised |-> TRUE, n |-> 0]

\* SortKey with int(x.get('mx')) and int(x.get('mmt')), without their `or 0`
SortKey_without_or(x) ==
    [raised |-> IntOf(x.mx).raised \/ IntOf(x.mmt).raised,
     key |-> <<x.platform_node.s, IntOf(x.mx).n, IntOf(x.mmt).n>>]

\* the key of the sort: (str(platform_node), int(mx or 0), int(mmt or 0)); the node
\* name of every input is a str, which str() returns as it is
SortKey(x) ==
    [raised |-> \/ IntOf(OrElse(x.mx, Value("num", <<>>, 0, EmptyDict))).raised
                \/ IntOf(OrElse(x.mmt, Value("num", <<>>, 0, EmptyDict))).raised,
     key |-> <<x.platform_node.s,
               IntOf(OrElse(x.mx, Value("num", <<>>, 0, EmptyDict))).n,
               IntOf(OrElse(x.mmt, Value("num", <<>>, 0, EmptyDict))).n>>]

RECURSIVE StrLess(_, _)
\* a < b on str: by code point, for strings of digits and letters
StrLess(a, b) ==
    IF Len(b) = 0 THEN FALSE
    ELSE IF Len(a) = 0 THEN TRUE
    ELSE IF a[1] = b[1] THEN StrLess(Tail(a), Tail(b))
    ELSE (CHOOSE k \in 1..62 : (DigitChars \o UpperChars \o LowerChars)[k] = a[1])
         < (CHOOSE k \in 1..62 : (DigitChars \o UpperChars \o LowerChars)[k] = b[1])

\* k1 < k2 on the key tuples
KeyLess(k1, k2) ==
    \/ StrLess(k1[1], k2[1])
    \/ k1[1] = k2[1] /\ k1[2] < k2[2]
    \/ k1[1] = k2[1] /\ k1[2] = k2[2] /\ k1[3] < k2[3]

RECURSIVE SortRows(_)
\* rows.sort(key=...): the sort is stable, so the first of the rows with the least
\* key comes first, then the others sorted
SortRows(rows) ==
    IF Len(rows) = 0 THEN <<>>
    ELSE LET m == CHOOSE m \in 1..Len(rows) :
                    /\ \A j \in 1..Len(rows) : ~KeyLess(SortKey(rows[j]).key, SortKey(rows[m]).key)
                    /\ \A j \in 1..(m - 1) : KeyLess(SortKey(rows[m]).key, SortKey(rows[j]).key)
         IN  <<rows[m]>> \o SortRows(SubSeq(rows, 1, m - 1) \o SubSeq(rows, m + 1, Len(rows)))

(***************************************************************************)
(* aggregate_results.py: the files under results/                          *)
(***************************************************************************)
\* the fields row_from_json reads; mean and stdev stand for the keys of both
\* statistics dicts
Fields ==
    {"platform", "info", "hostname", "uname", "node", "model_name", "cores_per_socket",
     "logical_cpus", "ht", "params", "mx", "mmt", "md", "iterations", "stats", "elapsed",
     "throughput_MB_s", "mean", "stdev"}

\* the document bench-7z.py writes for host, mx and mmt, with only the fields P present
ResultDoc(P, host, mx, mmt) ==
    Value("dict", <<>>, 0,
      [k \in {"platform", "params", "stats"} \cap P |->
        IF k = "platform"
        THEN Value("dict", <<>>, 0,
               [k2 \in {"info"} \cap P |->
                 Value("dict", <<>>, 0,
                   [k3 \in {"hostname", "uname", "model_name", "cores_per_socket",
                            "logical_cpus", "ht"} \cap P |->
                     CASE k3 = "hostname" -> Value("str", host, 0, EmptyDict)
                       [] k3 = "uname" ->
                            Value("dict", <<>>, 0,
                                  [k4 \in {"node"} \cap P |-> Value("str", <<"n">>, 0, EmptyDict)])
                       [] k3 = "model_name" -> Value("str", <<"m">>, 0, EmptyDict)
                       [] k3 = "cores_per_socket" -> Value("num", <<>>, 2, EmptyDict)
                       [] k3 = "logical_cpus" -> Value("num", <<>>, 4, EmptyDict)
                       [] k3 = "ht" -> Value("bool", <<>>, 1, EmptyDict)])])
        ELSE IF k = "params"
        THEN Value("dict", <<>>, 0,
               [k2 \in {"mx", "mmt", "md", "iterations"} \cap P |->
                 Value("num", <<>>,
                       CASE k2 = "mx" -> mx [] k2 = "mmt" -> mmt [] k2 = "md" -> 26
                         [] k2 = "iterations" -> 1,
                       EmptyDict)])
        ELSE Value("dict", <<>>, 0,
               [k2 \in {"elapsed", "throughput_MB_s"} \cap P |->
                 Value("dict", <<>>, 0,
                   [k3 \in {"count"} \cup ({"mean", "stdev"} \cap P) |->
                     Value("num", <<>>, IF k3 = "mean" THEN 3 ELSE 1, EmptyDict)])])])

MaxMissing == 2

MaxFiles == 3

\* result documents with up to MaxMissing fields missing, and some of other hosts
\* and levels for the sort
Docs ==
    {ResultDoc(Fields \ M, <<"b">>, 5, 1) :
        M \in {M \in SUBSET Fields : Cardinality(M) <= MaxMissing}}
    \cup {ResultDoc(Fields \ M, <<"a">>, mx, 1) :
            M \in {{}, {"mx"}, {"hostname"}, {"platform"}}, mx \in {5, 9}}

\* the contents of results/, as the parsed documents in the order of the sorted
\* paths: None is a file json.loads raises on; one document has a platform that is
\* not a dict and one a level that is not a number
AggInputs ==
    {<<Some(d)>> : d \in Docs}
    \cup SeqsUpTo({None,
                   Some(Value("dict", <<>>, 0,
                              [k \in {"platform"} |-> Value("str", <<"x">>, 0, EmptyDict)])),
                   Some(Value("dict", <<>>, 0,
                              [k \in {"params"} |->
                                 Value("dict", <<>>, 0,
                                       [k2 \in {"mx"} |-> Value("str", <<"x">>, 0, EmptyDict)])])),
                   Some(ResultDoc(Fields, <<"b">>, 5, 1))}
                  \cup {Some(ResultDoc(Fields \ M, <<"a">>, mx, 1)) :
                          M \in {{}, {"mx"}, {"hostname"}, {"platform"}}, mx \in {5, 9}},
                  MaxFiles)

(***************************************************************************)
(* State                                                                   *)
(***************************************************************************)
VARIABLES
    pc,          \* main: "loop", "running", "cooldown", "stats", "done", "crashed"
                 \* (an uncaught ValueError), "interrupted" (KeyboardInterrupt)
    launch,      \* main: the command line, the environment and bench.conf
    iterations,  \* main: args.iterations once resolved
    i,           \* main: the loop variable
    samples,     \* main: the samples list
    raw_dir,     \* main: the files written under raw_dir, by name
    out_file,    \* main: None, or the results document written to out_fname
    in_flight,   \* run_one: the child processes running
    invoked,     \* history: the iterations run_one was called for, in order
    outcomes,    \* history: how each call of run_one ended, in order
    slept,       \* history: the iterations after which time.sleep was called
    text,        \* parse_7z_benchmark_output: its argument
    lines,       \* parse_7z_benchmark_output: text.split('\n')
    ppc,         \* parse_7z_benchmark_output: "scan", "table", "done" (returned),
                 \* "raised" (ValueError left the function)
    idx,         \* parse_7z_benchmark_output: the 1-based index of the next line
    header_idx,  \* parse_7z_benchmark_output: the header's index, 0 for -1
    result,      \* parse_7z_benchmark_output: the result dict
    values,      \* safe_stats: its argument
    s,           \* safe_stats: None, or the dict it returned
    files,       \* aggregate_results main: the parsed contents of the files found
    fidx,        \* aggregate_results main: the 1-based index of the next file
    rows,        \* aggregate_results main: the rows list
    apc,         \* aggregate_results main: "read", "done" (returned), "raised" (an
                 \* exception left main)
    written      \* aggregate_results main: None, or the rows written to both outputs

mainVars == <<pc, launch, iterations, i, samples, raw_dir, out_file, in_flight,
              invoked, outcomes, slept>>

parserVars == <<text, lines, ppc, idx, header_idx, result>>

statsVars == <<values, s>>

aggVars == <<files, fidx, rows, apc, written>>

vars == <<mainVars, parserVars, statsVars, aggVars>>

\* the values of the variables of a function that is not running
MainIdle ==
    /\ pc = "idle" /\ launch = None /\ iterations = 0 /\ i = 0 /\ samples = <<>>
    /\ raw_dir = EmptyDict /\ out_file = None /\ in_flight = 0
    /\ invoked = <<>> /\ outcomes = <<>> /\ slept = <<>>

ParserIdle ==
    /\ text = <<>> /\ lines = <<>> /\ ppc = "idle" /\ idx = 0 /\ header_idx = 0
    /\ result = EmptyResult

StatsIdle == values = <<>> /\ s = None

AggIdle == files = <<>> /\ fidx = 0 /\ rows = <<>> /\ apc = "idle" /\ written = None

(***************************************************************************)
(* main, from the resolved iteration count to the written results          *)
(***************************************************************************)
\* StartRun with a child started without waiting for the one before it
StartRun_without_waiting ==
    /\ pc \in {"loop", "running"}
    /\ i <= iterations
    /\ pc' = "running"
    /\ in_flight' = in_flight + 1
    /\ invoked' = Append(invoked, i)
    /\ UNCHANGED <<launch, iterations, i, samples, raw_dir, out_file, outcomes, slept,
                   parserVars, statsVars, aggVars>>

\* the for statement takes the next i and run_one starts the child process
StartRun ==
    /\ pc = "loop"
    /\ i <= iterations
    /\ pc' = "running"
    /\ in_flight' = in_flight + 1
    /\ invoked' = Append(invoked, i)
    /\ UNCHANGED <<launch, iterations, i, samples, raw_dir, out_file, outcomes, slept,
                   parserVars, statsVars, aggVars>>

\* subprocess.run raises TimeoutExpired (a timeout was given): the except branch
RunTimesOut ==
    /\ pc = "running"
    /\ launch.flags.timeout # None
    /\ in_flight' = in_flight - 1
    /\ outcomes' = Append(outcomes, "timeout")
    /\ samples' = SamplesAfterTimeout(samples, i)
    /\ i' = i + 1
    /\ pc' = "loop"
    /\ UNCHANGED <<launch, iterations, raw_dir, out_file, invoked, slept,
                   parserVars, statsVars, aggVars>>

\* whether the loop body sleeps after iteration n
Cooldown(cooldown, n, count) == cooldown[1] # 0 /\ n # count

\* run_one returns r and the report parses: the raw log is written, the sample is
\* appended, and the loop sleeps or goes on
RunReturns(r) ==
    /\ pc = "running"
    /\ \E parsed \in {parse_7z_benchmark_output(r.stdout)} :
          /\ ~parsed.raised
          /\ samples' = Append(samples,
                               NormalSample(i, r,
                                            parse_throughput(r.stdout \o <<"\n">> \o r.stderr),
                                            parsed.result, launch.flags.keep_raw))
    /\ in_flight' = in_flight - 1
    /\ outcomes' = Append(outcomes, "normal")
    /\ raw_dir' = Put(raw_dir, RawFname(i), RawLogText(r))
    /\ IF Cooldown(launch.flags.cooldown, i, iterations)
       THEN /\ pc' = "cooldown"
            /\ slept' = Append(slept, i)
            /\ i' = i
       ELSE /\ pc' = "loop"
            /\ slept' = slept
            /\ i' = i + 1
    /\ UNCHANGED <<launch, iterations, out_file, invoked,
                   parserVars, statsVars, aggVars>>

\* run_one returns r and parse_7z_benchmark_output raises ValueError, which nothing
\* catches: main ends with a traceback
RunReturnsParserRaises(r) ==
    /\ pc = "running"
    /\ parse_7z_benchmark_output(r.stdout).raised
    /\ in_flight' = in_flight - 1
    /\ outcomes' = Append(outcomes, "normal")
    /\ pc' = "crashed"
    /\ UNCHANGED <<launch, iterations, i, samples, raw_dir, out_file, invoked, slept,
                   parserVars, statsVars, aggVars>>

\* time.sleep returns
CooldownEnds ==
    /\ pc = "cooldown"
    /\ i' = i + 1
    /\ pc' = "loop"
    /\ UNCHANGED <<launch, iterations, samples, raw_dir, out_file, in_flight, invoked,
                   outcomes, slept,
                   parserVars, statsVars, aggVars>>

\* the for statement is exhausted
LoopExit ==
    /\ pc = "loop"
    /\ i > iterations
    /\ pc' = "stats"
    /\ UNCHANGED <<launch, iterations, i, samples, raw_dir, out_file, in_flight, invoked,
                   outcomes, slept,
                   parserVars, statsVars, aggVars>>

\* the statistics are computed and the results document is written
WriteResults ==
    /\ pc = "stats"
    /\ out_file' = Some(Results(iterations, samples))
    /\ pc' = "done"
    /\ UNCHANGED <<launch, iterations, i, samples, raw_dir, in_flight, invoked, outcomes,
                   slept,
                   parserVars, statsVars, aggVars>>

\* KeyboardInterrupt while main runs: nothing catches it; subprocess.run kills the
\* child it waits for
Interrupt ==
    /\ pc \in {"loop", "running", "cooldown", "stats"}
    /\ pc' = "interrupted"
    /\ in_flight' = 0
    /\ UNCHANGED <<launch, iterations, i, samples, raw_dir, out_file, invoked, outcomes,
                   slept,
                   parserVars, statsVars, aggVars>>

\* the state at `samples = []`, the iteration count resolved
Init ==
    /\ launch \in Launches
    /\ iterations = ResolveIterations(launch.iterations, launch.environ, launch.bench_conf)
    /\ pc = "loop"
    /\ i = 1
    /\ samples = <<>>
    /\ raw_dir = EmptyDict
    /\ out_file = None
    /\ in_flight = 0
    /\ invoked = <<>>
    /\ outcomes = <<>>
    /\ slept = <<>>
    /\ ParserIdle
    /\ StatsIdle
    /\ AggIdle

Next ==
    \/ StartRun
    \/ RunTimesOut
    \/ \E r \in RunResults : RunReturns(r)
    \/ \E r \in RunResults : RunReturnsParserRaises(r)
    \/ CooldownEnds
    \/ LoopExit
    \/ WriteResults
    \/ Interrupt

Spec == Init /\ [][Next]_vars

(***************************************************************************)
(* parse_7z_benchmark_output, line by line                                 *)
(***************************************************************************)
\* one iteration of the first loop
ScanStep ==
    /\ ppc = "scan"
    /\ idx <= Len(lines)
    /\ \E scanned \in {ScanLine(result, lines[idx])} :
          /\ ~scanned.raised
          /\ result' = scanned.result
    /\ idx' = idx + 1
    /\ UNCHANGED <<text, lines, ppc, header_idx,
                   mainVars, statsVars, aggVars>>

\* int() or float() raises in the first loop
ScanRaises ==
    /\ ppc = "scan"
    /\ idx <= Len(lines)
    /\ ScanLine(result, lines[idx]).raised
    /\ ppc' = "raised"
    /\ UNCHANGED <<text, lines, idx, header_idx, result,
                   mainVars, statsVars, aggVars>>

\* the first loop is over and the header search finds a header
HeaderFound ==
    /\ ppc = "scan"
    /\ idx > Len(lines)
    /\ HeaderIdx(lines) # 0
    /\ header_idx' = HeaderIdx(lines)
    /\ idx' = HeaderIdx(lines) + 1
    /\ ppc' = "table"
    /\ UNCHANGED <<text, lines, result,
                   mainVars, statsVars, aggVars>>

\* the first loop is over and no line is a header: return result
HeaderMissing ==
    /\ ppc = "scan"
    /\ idx > Len(lines)
    /\ HeaderIdx(lines) = 0
    /\ ppc' = "done"
    /\ UNCHANGED <<text, lines, idx, header_idx, result,
                   mainVars, statsVars, aggVars>>

\* one iteration of the while loop that goes on to the next line
TableStep ==
    /\ ppc = "table"
    /\ idx <= Len(lines)
    /\ \E t \in {TableLine(result, lines[idx])} :
          /\ t.ctl = "next"
          /\ result' = t.result
    /\ idx' = idx + 1
    /\ UNCHANGED <<text, lines, ppc, header_idx,
                   mainVars, statsVars, aggVars>>

\* the break of the while loop: return result
TableBreak ==
    /\ ppc = "table"
    /\ idx <= Len(lines)
    /\ TableLine(result, lines[idx]).ctl = "break"
    /\ ppc' = "done"
    /\ UNCHANGED <<text, lines, idx, header_idx, result,
                   mainVars, statsVars, aggVars>>

\* int() raises in the while loop
TableRaises ==
    /\ ppc = "table"
    /\ idx <= Len(lines)
    /\ TableLine(result, lines[idx]).ctl = "raise"
    /\ ppc' = "raised"
    /\ UNCHANGED <<text, lines, idx, header_idx, result,
                   mainVars, statsVars, aggVars>>

\* the while loop runs out of lines: return result
TableEnd ==
    /\ ppc = "table"
    /\ idx > Len(lines)
    /\ ppc' = "done"
    /\ UNCHANGED <<text, lines, idx, header_idx, result,
                   mainVars, statsVars, aggVars>>

ParserSpecInit ==
    /\ text \in Texts
    /\ lines = Split(text, "\n")
    /\ ppc = "scan"
    /\ idx = 1
    /\ header_idx = 0
    /\ result = EmptyResult
    /\ MainIdle
    /\ StatsIdle
    /\ AggIdle

ParserNext ==
    \/ ScanStep
    \/ ScanRaises
    \/ HeaderFound
    \/ HeaderMissing
    \/ TableStep
    \/ TableBreak
    \/ TableRaises
    \/ TableEnd

ParserSpec == ParserSpecInit /\ [][ParserNext]_vars

(***************************************************************************)
(* safe_stats                                                              *)
(***************************************************************************)
MaxValues == 3

MaxValue == 3

\* the call returns
ComputeStats ==
    /\ s = None
    /\ s' = Some(safe_stats(values))
    /\ UNCHANGED <<values, mainVars, parserVars, aggVars>>

StatsSpecInit ==
    /\ values \in SeqsUpTo(0..MaxValue, MaxValues)
    /\ s = None
    /\ MainIdle
    /\ ParserIdle
    /\ AggIdle

StatsSpec == StatsSpecInit /\ [][ComputeStats]_vars

(***************************************************************************)
(* aggregate_results.py main, from the collected files to the two outputs  *)
(***************************************************************************)
\* the state after collect_json_files
AggSpecInit ==
    /\ files \in AggInputs
    /\ fidx = 1
    /\ rows = <<>>
    /\ apc = "read"
    /\ written = None
    /\ MainIdle
    /\ ParserIdle
    /\ StatsIdle

\* `if not files:` prints and returns: nothing is written
NoFiles ==
    /\ apc = "read"
    /\ files = <<>>
    /\ apc' = "done"
    /\ UNCHANGED <<files, fidx, rows, written, mainVars, parserVars, statsVars>>

\* one iteration of the loop over the files: the row is appended unless it is None
ReadRow ==
    /\ apc = "read"
    /\ fidx <= Len(files)
    /\ \E r \in {row_from_json(<<"r", DigitChars[fidx + 1]>>, files[fidx])} :
          /\ ~r.raised
          /\ rows' = IF r.row # None THEN Append(rows, r.row[1]) ELSE rows
    /\ fidx' = fidx + 1
    /\ UNCHANGED <<files, apc, written, mainVars, parserVars, statsVars>>

\* row_from_json raises
ReadRaises ==
    /\ apc = "read"
    /\ fidx <= Len(files)
    /\ row_from_json(<<"r", DigitChars[fidx + 1]>>, files[fidx]).raised
    /\ apc' = "raised"
    /\ UNCHANGED <<files, fidx, rows, written, mainVars, parserVars, statsVars>>

\* the loop is over: rows.sort, then write_markdown and write_csv of the same rows
SortWrite ==
    /\ apc = "read"
    /\ files # <<>>
    /\ fidx > Len(files)
    /\ \A k \in 1..Len(rows) : ~SortKey(rows[k]).raised
    /\ rows' = SortRows(rows)
    /\ written' = Some(SortRows(rows))
    /\ apc' = "done"
    /\ UNCHANGED <<files, fidx, mainVars, parserVars, statsVars>>

\* int() raises in the key of the sort
SortRaises ==
    /\ apc = "read"
    /\ files # <<>>
    /\ fidx > Len(files)
    /\ \E k \in 1..Len(rows) : SortKey(rows[k]).raised
    /\ apc' = "raised"
    /\ UNCHANGED <<files, fidx, rows, written, mainVars, parserVars, statsVars>>

AggNext ==
    \/ NoFiles
    \/ ReadRow
    \/ ReadRaises
    \/ SortWrite
    \/ SortRaises

AggSpec == AggSpecInit /\ [][AggNext]_vars

(***************************************************************************)
(* main: the sample list, timeouts, the run record                         *)
(***************************************************************************)
\* C1: when the iteration loop of main has finished, for an iteration count k >= 1
\* and whatever mix of normal completions and timeouts, samples has exactly k entries
\* and the entry at position j has run index j.
C1_SamplesInExecutionOrder ==
    (pc \in {"stats", "done"} /\ iterations >= 1) =>
        /\ Len(samples) = iterations
        /\ \A j \in 1..Len(samples) : samples[j].run = j

\* the loop has finished after at least two iterations, one timed out and one normal
C1_LoopFinishedWithTimeout ==
    /\ pc = "stats"
    /\ iterations >= 2
    /\ \E a, b \in 1..Len(outcomes) : outcomes[a] = "timeout" /\ outcomes[b] = "normal"

\* C2: when iteration j times out, its sample has note = "timeout" and elapsed, exit
\* code and throughput all none, and every later iteration that completes normally
\* yields a normally populated sample (elapsed and exit code set, parsed report
\* present): the run went on.
C2_RunGoesOnAfterTimeout ==
    \A j \in 1..Len(outcomes) : outcomes[j] = "timeout" =>
        /\ samples[j].note = "timeout"
        /\ samples[j].elapsed_s = None
        /\ samples[j].returncode = None
        /\ samples[j].throughput_MB_s = None
        /\ \A m \in (j + 1)..Len(outcomes) : outcomes[m] = "normal" =>
              /\ Len(samples) >= m
              /\ samples[m].elapsed_s # None
              /\ samples[m].returncode # None
              /\ "benchmark" \in DOMAIN samples[m]

\* every invocation so far timed out
AllTimedOut == \A j \in 1..Len(outcomes) : outcomes[j] = "timeout"

\* C3: a run with an iteration count >= 1 that ends without being cancelled ends with
\* its record written, and when every iteration timed out both statistics of the
\* record have count = 0.
C3_RunEndsWithRecord ==
    (iterations >= 1 /\ pc \in {"done", "crashed"}) =>
        /\ out_file # None
        /\ AllTimedOut =>
              /\ out_file[1].stats.elapsed.count = 0
              /\ out_file[1].stats.throughput_MB_s.count = 0

\* C4: with a resolved iteration count < 1 no invocation is started and no run record
\* is produced.
C4_CountBelowOneRejected == iterations < 1 => (invoked = <<>> /\ out_file = None)

\* C5: when the run is cancelled after j < k iterations have produced samples, those
\* j samples are kept in a written result.
C5_CancelKeepsSamples ==
    (pc = "interrupted" /\ samples # <<>> /\ Len(samples) < iterations) =>
        (out_file # None /\ out_file[1].samples = samples)

\* the fields a sample holds besides raw text: the run index, the timing, the exit
\* code, the throughput, the parsed report and the reference to the raw log
NonRawFields == {"run", "elapsed_s", "returncode", "throughput_MB_s", "benchmark"}

\* C10: for every normally completed iteration, without --keep-raw the raw text is
\* written to the raw log and the sample stores the reference to it; with --keep-raw
\* the sample holds the raw text inline.
C10_RawTextKeptAsConfigured ==
    pc # "idle" =>
        \A j \in 1..Len(samples) : "note" \notin DOMAIN samples[j] =>
            IF launch.flags.keep_raw
            THEN \E f \in (DOMAIN samples[j]) \ NonRawFields : samples[j][f] # None
            ELSE /\ samples[j].raw_log = Some(RawFname(j))
                 /\ RawFname(j) \in DOMAIN raw_dir

(***************************************************************************)
(* parse_7z_benchmark_output: totality, the data rows, the averages        *)
(***************************************************************************)
\* C6: parse_7z_benchmark_output never raises, and for a text with no recognised
\* line (only empty lines and garbage) it returns all sections empty.
C6_ParserTotal ==
    /\ ppc # "raised"
    /\ (ppc = "done" /\ \A n \in 1..Len(lines) : lines[n] \in {L_empty, L_garbage})
          => result = EmptyResult

\* a token that is a number: one digit or more and nothing else
AllDigits(t) == Len(t) > 0 /\ \A k \in 1..Len(t) : IsDigit(t[k])

\* the whitespace-separated tokens of a half that are numbers
NumericTokens(half) == SelectSeq(SplitWS(half), AllDigits)

\* a line that starts with <digits>: and white space (no skip rule applies to it)
IsDataRowLine(line) ==
    /\ ~IsSkipped(line)
    /\ ~IsSeparator(line)
    /\ \E n \in 2..Len(line) :
          /\ \A k \in 1..(n - 1) : IsDigit(line[k])
          /\ line[n] = ":"
          /\ n < Len(line)
          /\ IsSpace(line[n + 1])

\* the four metrics of a half, from its first four numeric tokens
FourMetrics(tokens) ==
    [speed |-> ToNat(tokens[1]), usage |-> ToNat(tokens[2]),
     r_u |-> ToNat(tokens[3]), rating |-> ToNat(tokens[4])]

\* the row the claim describes for the leading digits and the halves of the rest
ClaimedRow(digits, halves) ==
    [k \in {"dict"}
           \cup (IF Len(NumericTokens(halves[1])) >= 4 THEN {"compress"} ELSE {})
           \cup (IF Len(halves) >= 2 /\ Len(NumericTokens(halves[2])) >= 4
                 THEN {"decompress"} ELSE {}) |->
        IF k = "dict" THEN ToNat(digits)
        ELSE IF k = "compress" THEN FourMetrics(NumericTokens(halves[1]))
        ELSE FourMetrics(NumericTokens(halves[2]))]

\* C8: inside the table, a line starting with <digits>: appends exactly one row: its
\* dictionary size is the leading digits, each half of the rest (split on the pipe)
\* with at least four numeric tokens gives speed, usage, rating-per-usage and rating
\* from its first four, and a half with fewer is absent from the row.
C8_DataRowAppended ==
    [][(ppc = "table" /\ idx <= Len(lines) /\ IsDataRowLine(lines[idx])) =>
           result'.benchmark_table =
               Append(result.benchmark_table,
                      ClaimedRow(Sub(lines[idx], 1, FirstIndex(lines[idx], ":") - 1),
                                 Split(From(lines[idx], FirstIndex(lines[idx], ":") + 1),
                                       "|")))]_vars

RECURSIVE DigitRuns(_)
\* the numeric tokens of a half of the averages line: its maximal runs of digits
DigitRuns(half) ==
    IF Len(half) = 0 THEN <<>>
    ELSE IF IsDigit(half[1])
    THEN <<Sub(half, 1, ClassRunEnd(half, 1, "d") - 1)>>
         \o DigitRuns(From(half, ClassRunEnd(half, 1, "d")))
    ELSE DigitRuns(Tail(half))

\* what a half with the numeric tokens nums does to the averages fields named keys:
\* with four tokens or more the fields are the first four, with fewer they are left
\* as they were (absent when they were absent)
HalfRecorded(before, after, nums, keys) ==
    IF Len(nums) >= 4
    THEN \A n \in 1..4 : keys[n] \in DOMAIN after /\ after[keys[n]] = ToNat(nums[n])
    ELSE \A n \in 1..4 :
            /\ keys[n] \in DOMAIN after <=> keys[n] \in DOMAIN before
            /\ keys[n] \in DOMAIN before => after[keys[n]] = before[keys[n]]

\* both halves of the averages line recorded, independently of each other
AveragesRecorded(before, after, halves) ==
    /\ HalfRecorded(before, after, DigitRuns(From(halves[1], Len(S_Avr) + 1)),
                    CompressKeys)
    /\ HalfRecorded(before, after,
                    IF Len(halves) >= 2 THEN DigitRuns(halves[2]) ELSE <<>>,
                    DecompressKeys)

C7_SafeStatsFields ==
    s # None =>
        /\ s[1].count = Len(values)
        /\ Len(values) = 0 => DOMAIN s[1] = {"count"}
        /\ Len(values) = 1 =>
              /\ DOMAIN s[1] = {"count", "mean", "median", "stdev"}
              /\ s[1].stdev = ZeroStdev
              /\ s[1].mean = <<values[1], 1>>
              /\ s[1].median = <<values[1], 1>>
        /\ Len(values) >= 2 => DOMAIN s[1] = {"count", "mean", "median", "stdev"}

\* safe_stats has returned for a one-element sequence
C7_OneValueComputed == s # None /\ Len(values) = 1

(***************************************************************************)
(* aggregate_results.py: missing fields                                    *)
(***************************************************************************)
RECURSIVE Present(_, _)
\* the document has a value under the path of keys
Present(v, keys) ==
    \/ Len(keys) = 0
    \/ /\ v.t = "dict"
       /\ keys[1] \in DOMAIN v.d
       /\ Present(v.d[keys[1]], Tail(keys))

RECURSIVE At(_, _)
\* the value under a path that is present
At(v, keys) == IF Len(keys) = 0 THEN v ELSE At(v.d[keys[1]], Tail(keys))

\* the paths each column is read from, in the order they are tried
ColumnPaths ==
    [platform_node |-> <<<<"platform", "info", "hostname">>,
                         <<"platform", "info", "uname", "node">>>>,
     cpu_model |-> <<<<"platform", "info", "model_name">>>>,
     physical_cores |-> <<<<"platform", "info", "cores_per_socket">>>>,
     logical_cores |-> <<<<"platform", "info", "logical_cpus">>>>,
     ht |-> <<<<"platform", "info", "ht">>>>,
     mx |-> <<<<"params", "mx">>>>,
     mmt |-> <<<<"params", "mmt">>>>,
     md |-> <<<<"params", "md">>>>,
     iterations |-> <<<<"params", "iterations">>>>,
     avg_s |-> <<<<"stats", "elapsed", "mean">>>>,
     stddev_s |-> <<<<"stats", "elapsed", "stdev">>>>,
     throughput_MB_s |-> <<<<"stats", "throughput_MB_s", "mean">>>>]

\* the cell of column c is empty when none of its paths is in the document, and the
\* value under the first path that is there otherwise
CellAsDocument(doc, row, c) ==
    IF \A n \in 1..Len(ColumnPaths[c]) : ~Present(doc, ColumnPaths[c][n])
    THEN row[c] = EmptyStr
    ELSE row[c] = At(doc, ColumnPaths[c][CHOOSE n \in 1..Len(ColumnPaths[c]) :
                                            /\ Present(doc, ColumnPaths[c][n])
                                            /\ \A m \in 1..(n - 1) :
                                                  ~Present(doc, ColumnPaths[c][m])])

\* every file is a result document, whatever fields it misses
AllResultDocs == \A k \in 1..Len(files) : files[k] # None /\ files[k][1] \in Docs

\* C11: when every file holds a result document with some of platform, info, params,
\* stats and their sub-fields missing, no exception leaves main, each row read has an
\* empty cell for every missing value (and the document's value otherwise), and the
\* run ends with one row per file written in the order of the sort key
C11_MissingFieldsGiveEmptyCells ==
    AllResultDocs =>
        /\ apc # "raised"
        /\ apc = "read" =>
              /\ Len(rows) = fidx - 1
              /\ \A k \in 1..Len(rows) : \A c \in DOMAIN ColumnPaths :
                    CellAsDocument(files[k][1], rows[k], c)
        /\ (apc = "done" /\ files # <<>>) =>
              /\ written # None
              /\ Len(written[1]) = Len(files)
              /\ \A j \in 1..Len(written[1]) : \A k \in (j + 1)..Len(written[1]) :
                    ~KeyLess(SortKey(written[1][k]).key, SortKey(written[1][j]).key)

\* two or more result documents were aggregated, one without its platform and one
\* with params but without mx
C11_AggregatedWithMissing ==
    /\ AllResultDocs
    /\ apc = "done"
    /\ written # None
    /\ Len(files) >= 2
    /\ \E k \in 1..Len(files) : ~Present(files[k][1], <<"platform">>)
    /\ \E k \in 1..Len(files) :
          Present(files[k][1], <<"params">>) /\ ~Present(files[k][1], <<"params", "mx">>)

(***************************************************************************)
(* main: the cooldown, the sequence of invocations                         *)
(***************************************************************************)
\* C12: with a cooldown above zero, every invocation after the first was started
\* after time.sleep was called for the iteration before it, whether that iteration
\* returned or timed out, and time.sleep is never called for the final iteration
C12_CooldownBetweenInvocations ==
    launch.flags.cooldown[1] # 0 =>
        /\ \A n \in 2..Len(invoked) : \E k \in 1..Len(slept) : slept[k] = invoked[n] - 1
        /\ \A k \in 1..Len(slept) : slept[k] # iterations

\* C13: at most one child process is in flight; the invocations are those of
\* iterations 1, 2, ... in that order, and when invocation n starts, invocation n-1
\* has ended (returned or timed out) and its sample is in the list
C13_InvocationsSequential ==
    /\ in_flight <= 1
    /\ pc = "running" => in_flight = 1 /\ Len(outcomes) = Len(invoked) - 1
    /\ \A n \in 1..Len(invoked) : invoked[n] = n
    /\ \A n \in 2..Len(invoked) :
          /\ Len(outcomes) >= n - 1
          /\ Len(samples) >= n - 1
          /\ samples[n - 1].run = n - 1

\* the third invocation is running, after one that timed out and one that returned
C13_ThirdInvocationRunning ==
    /\ pc = "running"
    /\ Len(invoked) = 3
    /\ \E n \in 1..2 : outcomes[n] = "timeout"
    /\ \E n \in 1..2 : outcomes[n] = "normal"

(***************************************************************************)
(* parse_7z_benchmark_output: malformed tokens, the extent of the table    *)
(***************************************************************************)
\* the section a labelled line belongs to, "" for a line without a label
SectionOf(line) ==
    IF Contains(line, S_CPU_Freq_MHz) THEN "cpu_freq"
    ELSE IF StartsWith(line, S_Avr) THEN "averages"
    ELSE IF StartsWith(line, S_Tot) THEN "totals"
    ELSE IF IsDataRowLine(line) THEN "benchmark_table"
    ELSE ""

\* a labelled line with a token after the label that is not a number (a pipe
\* between the halves is not a token)
HasMalformedToken(line) ==
    /\ SectionOf(line) # ""
    /\ \E n \in 1..Len(SplitWS(From(line, FirstIndex(line, ":") + 1))) :
          /\ SplitWS(From(line, FirstIndex(line, ":") + 1))[n] # <<"|">>
          /\ ~AllDigits(SplitWS(From(line, FirstIndex(line, ":") + 1))[n])

\* C14: the iteration of either loop on a line with a malformed numeric token raises
\* nothing and leaves every section other than the line's own as it was
C14_MalformedTokenFieldAbsent ==
    [][(ppc \in {"scan", "table"} /\ idx <= Len(lines) /\ HasMalformedToken(lines[idx])) =>
          /\ ppc' # "raised"
          /\ \A sec \in DOMAIN result :
                sec # SectionOf(lines[idx]) => result'[sec] = result[sec]]_vars

\* a line starting with <digits>:
StartsWithDigitsColon(line) ==
    \E n \in 2..Len(line) : line[n] = ":" /\ \A k \in 1..(n - 1) : IsDigit(line[k])

\* the lines the claim names as ending the table
EndsTableAsClaimed(line) ==
    /\ ~IsBlank(line)
    /\ ~IsSpace(line[1])
    /\ ~IsSkipped(line)
    /\ ~IsSeparator(line)
    /\ ~StartsWith(line, S_Avr)
    /\ ~StartsWith(line, S_Tot)
    /\ ~StartsWithDigitsColon(line)

\* the index of the first such line after the header, 0 when there is none
FirstTableEnd(ls, h) ==
    IF \E k \in (h + 1)..Len(ls) : EndsTableAsClaimed(ls[k])
    THEN CHOOSE k \in (h + 1)..Len(ls) :
            /\ EndsTableAsClaimed(ls[k])
            /\ \A m \in (h + 1)..(k - 1) : ~EndsTableAsClaimed(ls[m])
    ELSE 0

\* C15: when a line after the header ends the table, the while loop never goes past
\* it, and the benchmark_table, averages and totals returned are those of the text
\* cut after that line: no later line changes them
C15_NothingAfterTableEnd ==
    (header_idx # 0 /\ FirstTableEnd(lines, header_idx) # 0) =>
        /\ ppc = "table" => idx <= FirstTableEnd(lines, header_idx)
        /\ ppc = "done" =>
              \A sec \in {"benchmark_table", "averages", "totals"} :
                 result[sec] =
                    ParseLines(SubSeq(lines, 1, FirstTableEnd(lines, header_idx))).result[sec]

\* the function returned for a text with a well-formed data row after the line
\* that ended the table
C15_RowAfterTableEnd ==
    /\ ppc = "done"
    /\ header_idx # 0
    /\ FirstTableEnd(lines, header_idx) # 0
    /\ \E n \in (FirstTableEnd(lines, header_idx) + 1)..Len(lines) : lines[n] = L_row

\* C16: without a header line nothing is raised and benchmark_table, averages and
\* totals are returned empty; with one, the three are those of the text from the
\* first header line on, so that no line at or before the header contributes
C16_TableStartsAtHeader ==
    /\ HeaderIdx(lines) = 0 =>
          /\ ppc # "raised"
          /\ \A sec \in {"benchmark_table", "averages", "totals"} :
                result[sec] = EmptyResult[sec]
    /\ (HeaderIdx(lines) # 0 /\ ppc = "done") =>
          \A sec \in {"benchmark_table", "averages", "totals"} :
             result[sec] =
                ParseLines(SubSeq(lines, HeaderIdx(lines), Len(lines))).result[sec]

\* the lines the claim names as skipped: blank, unit legend, "Compressing", a
\* separator of dashes and pipes, and an indented line that is none of these
SkippedAsClaimed(line) ==
    \/ IsBlank(line)
    \/ Contains(line, <<"K", "i", "B", "/", "s">>)
    \/ Contains(line, <<"C", "o", "m", "p", "r", "e", "s", "s", "i", "n", "g">>)
    \/ /\ Contains(line, <<"-", "-">>)
       /\ \A k \in 1..Len(line) : line[k] \in {"-", "|", " "}
    \/ IsSpace(line[1])

\* C17: inside the table a skipped line leaves the result as it is and the loop goes
\* on to the next line; a data row, an Avr: line or a Tot: line that follows skipped
\* lines is still parsed, the row being appended after the rows before it
C17_SkippedLinesAddNothing ==
    [][(ppc = "table" /\ idx <= Len(lines)) =>
          /\ SkippedAsClaimed(lines[idx]) =>
                ppc' = "table" /\ idx' = idx + 1 /\ result' = result
          /\ (\E k \in (header_idx + 1)..(idx - 1) : SkippedAsClaimed(lines[k])) =>
                /\ IsDataRowLine(lines[idx]) =>
                      /\ ppc' = "table" /\ idx' = idx + 1
                      /\ Len(result'.benchmark_table) = Len(result.benchmark_table) + 1
                      /\ SubSeq(result'.benchmark_table, 1, Len(result.benchmark_table))
                            = result.benchmark_table
                /\ (StartsWith(lines[idx], S_Avr) \/ StartsWith(lines[idx], S_Tot)) =>
                      ppc' = "table" /\ idx' = idx + 1]_vars

\* the averages the Avr: rule extracts from the body of a data-row line, the text
\* after its "<digits>:" prefix
AveragesOfBody(line) == ParseAvr(EmptyDict, S_Avr \o From(line, FirstIndex(line, ":") + 1))

\* the four values of one half, in the order speed, usage, r_u, rating, or <<>>
\* when the half is absent
RowHalf(row, half) ==
    IF half \in DOMAIN row
    THEN <<row[half].speed, row[half].usage, row[half].r_u, row[half].rating>>
    ELSE <<>>

AveragesHalf(averages, keys) ==
    IF keys[1] \in DOMAIN averages
    THEN <<averages[keys[1]], averages[keys[2]], averages[keys[3]], averages[keys[4]]>>
    ELSE <<>>

\* C18: a data row and the averages row extract their metric groups by the same
\* rule: the loop step on a data-row line appends a row whose compress and
\* decompress groups are present exactly when the Avr: rule finds the
\* corresponding half in the same body, with the same four values
C18_RowsAndAveragesSameRule ==
    [][(ppc = "table" /\ idx <= Len(lines) /\ IsDataRowLine(lines[idx])) =>
          /\ Len(result'.benchmark_table) = Len(result.benchmark_table) + 1
          /\ RowHalf(result'.benchmark_table[Len(result'.benchmark_table)], "compress")
                = AveragesHalf(AveragesOfBody(lines[idx]), CompressKeys)
          /\ RowHalf(result'.benchmark_table[Len(result'.benchmark_table)], "decompress")
                = AveragesHalf(AveragesOfBody(lines[idx]), DecompressKeys)]_vars

\* the dicts f and g have the same entries under the keys K
SameOn(f, g, K) ==
    \A k \in K : /\ k \in DOMAIN f <=> k \in DOMAIN g
                 /\ k \in DOMAIN f => f[k] = g[k]

\* the timing phases: the marker looked for in the line and the key it is kept under
TimingPhases ==
    {<<<<"K", "e", "r", "n", "e", "l", " ", " ", "T", "i", "m", "e">>,
       <<"k", "e", "r", "n", "e", "l">>>>,
     <<<<"U", "s", "e", "r", " ", " ", " ", " ", "T", "i", "m", "e">>,
       <<"u", "s", "e", "r">>>>,
     <<<<"P", "r", "o", "c", "e", "s", "s", " ", "T", "i", "m", "e">>,
       <<"p", "r", "o", "c", "e", "s", "s">>>>,
     <<<<"G", "l", "o", "b", "a", "l", " ", " ", "T", "i", "m", "e">>,
       <<"g", "l", "o", "b", "a", "l">>>>}

\* C19: the last occurrence of a labeled line wins with nothing carried over: every
\* step of either loop that reads a labeled line without raising leaves the fields
\* of that label exactly as that line alone, read into an empty result, produces
\* them (so after the last occurrence nothing of an earlier one remains)
C19_LastOccurrenceWins ==
    [][(ppc \in {"scan", "table"} /\ idx <= Len(lines) /\ ppc' # "raised") =>
          /\ (ppc = "scan" /\ Contains(lines[idx], S_RAM_size)) =>
                SameOn(result'.system_info, ScanRamSize(EmptyDict, lines[idx]),
                       {"ram_mb", "cpu_threads"})
          /\ (ppc = "scan" /\ Contains(lines[idx], S_RAM_usage)) =>
                SameOn(result'.system_info, ScanRamUsage(EmptyDict, lines[idx]),
                       {"ram_usage_mb", "benchmark_threads"})
          /\ (ppc = "scan" /\ ReMatch(RE_cpu_freq, lines[idx]).ok) =>
                SameOn(result'.cpu_freq, ScanCpuFreq(EmptyDict, lines[idx]).cpu_freq,
                       {Group(lines[idx], ReMatch(RE_cpu_freq, lines[idx]), 1)})
          /\ ppc = "scan" =>
                \A ph \in TimingPhases :
                   Contains(lines[idx], ph[1]) =>
                      SameOn(result'.timing, ScanTiming(EmptyDict, lines[idx]).timing,
                             {ph[2]})
          /\ (ppc = "table" /\ ~IsSkipped(lines[idx]) /\ ~IsSeparator(lines[idx])
              /\ StartsWith(lines[idx], S_Avr)) =>
                result'.averages = ParseAvr(EmptyDict, lines[idx])
          /\ (ppc = "table" /\ ~IsSkipped(lines[idx]) /\ ~IsSeparator(lines[idx])
              /\ StartsWith(lines[idx], S_Tot)) =>
                result'.totals = ParseTot(EmptyDict, lines[idx]).totals]_vars

\* the positions of the samples whose field is not none
PositionsWith(smp, field) == {k \in 1..Len(smp) : smp[k][field] # None}

\* the values of the field at those positions, in the order of the samples
ValuesAt(smp, field) ==
    [j \in 1..Cardinality(PositionsWith(smp, field)) |->
        smp[CHOOSE k \in PositionsWith(smp, field) :
             Cardinality({m \in PositionsWith(smp, field) : m < k}) = j - 1][field][1]]

\* the iterations that did not time out
NotTimedOut == {k \in 1..Len(outcomes) : outcomes[k] # "timeout"}

\* C20: in the written run record the elapsed statistics are those of exactly the
\* non-none elapsed values of the samples and the throughput statistics those of
\* exactly the non-none throughput values; the elapsed count is the number of
\* iterations that did not time out, the throughput count the number of samples
\* with a throughput, and a timed-out sample has neither value
C20_StatsOverNonNoneValues ==
    out_file # None =>
       /\ out_file[1].stats.elapsed = safe_stats(ValuesAt(out_file[1].samples, "elapsed_s"))
       /\ out_file[1].stats.throughput_MB_s
             = safe_stats(ValuesAt(out_file[1].samples, "throughput_MB_s"))
       /\ out_file[1].stats.elapsed.count = Cardinality(NotTimedOut)
       /\ out_file[1].stats.throughput_MB_s.count
             = Cardinality(PositionsWith(out_file[1].samples, "throughput_MB_s"))
       /\ Len(out_file[1].samples) = Len(outcomes)
       /\ \A k \in 1..Len(outcomes) :
             outcomes[k] = "timeout" =>
                /\ out_file[1].samples[k].elapsed_s = None
                /\ out_file[1].samples[k].throughput_MB_s = None

\* a record was written after a run that timed out, a run that printed no
\* throughput and a run that printed one
C20_RecordWithTimeoutAndNoThroughput ==
    /\ out_file # None
    /\ \E k \in 1..Len(outcomes) : outcomes[k] = "timeout"
    /\ \E k \in NotTimedOut : out_file[1].samples[k].throughput_MB_s = None
    /\ \E k \in NotTimedOut : out_file[1].samples[k].throughput_MB_s # None
    /\ out_file[1].stats.elapsed.count = 2
    /\ out_file[1].stats.throughput_MB_s.count = 1

\* the label, then '= <seconds> = <percent>%' anywhere in a line
RE_labeled(label) ==
    <<Lit(label), Plus("s"), Lit(<<"=">>), Plus("s"), Open(1), Plus("d."), Close(1),
      Plus("s"), Lit(<<"=">>), Plus("s"), Plus("d"), Lit(<<"%">>)>>

\* the line carries the label with well-formed seconds (digits with at most one
\* dot) and a well-formed percent (digits)
CarriesPhase(line, label) ==
    /\ ReSearch(RE_labeled(label), line).ok
    /\ FloatOk(Group(line, ReSearch(RE_labeled(label), line), 1))

\* C21: the keys of the returned timing mapping are among kernel, user, process and
\* global, and every line that carries one of the four phase labels with well-formed
\* seconds and percent has an entry under the lowercase key of its phase
C21_TimingKeys ==
    ppc = "done" =>
       /\ DOMAIN result.timing \subseteq {ph[2] : ph \in TimingPhases}
       /\ \A k \in 1..Len(lines) : \A ph \in TimingPhases :
             CarriesPhase(lines[k], ph[1]) => ph[2] \in DOMAIN result.timing
=============================================================================
